---- MODULE Spec2Model ----
(***************************************************************************)
(* Options volatility-surface dashboard: the matrix builder                *)
(* (createSurfaceMatrix), the sorted view (sortedData / handleSort) and    *)
(* the fetch hook (useOptionsData) of the VolatilitySurface component.     *)
(*                                                                         *)
(* Conventions of the model                                                *)
(*  - JavaScript numbers are integers: prices and strikes in dollars,      *)
(*    implied volatilities in percent (0.30 is 30).  NaN and Infinity      *)
(*    cannot arrive through JSON and are not inputs.                       *)
(*  - An optional value (T | undefined) is a sequence of length 0 or 1.    *)
(*  - A JavaScript string that the code compares or parses is the          *)
(*    sequence of its UTF-16 code units; other strings are TLA+ strings.   *)
(*  - JavaScript arrays are sequences; a 0-based index i of the code is    *)
(*    kept as i and used as i + 1.                                         *)
(*  - inFlight holds the pending fetchData calls in the order they were    *)
(*    started, each with the type it asked for; overtaken and shown are    *)
(*    history: whether a call started later has already delivered its      *)
(*    matrix, and which call delivered the matrix now in surfaceData.      *)
(***************************************************************************)
EXTENDS Integers, Sequences, FiniteSets

VARIABLES
    bType, bData, bResult, bConfig, bView, bAgain,
    ticker, selectedType, surfaceData, sortConfig, sortedData,
    isLoading, error, inFlight, shown,
    cIV, cBaseIV, cColor, cData, cConfig, cTable,
    pType, pPages, pNext, pResults, pBuilt, pOutcome

buildVars == <<bType, bData, bResult, bConfig, bView, bAgain>>
uiVars == <<ticker, selectedType, surfaceData, sortConfig, sortedData,
            isLoading, error, inFlight, shown>>
colorVars == <<cIV, cBaseIV, cColor, cData, cConfig, cTable>>
fetchVars == <<pType, pPages, pNext, pResults, pBuilt, pOutcome>>
vars == <<bType, bData, bResult, bConfig, bView, bAgain,
          ticker, selectedType, surfaceData, sortConfig, sortedData,
          isLoading, error, inFlight, shown,
          cIV, cBaseIV, cColor, cData, cConfig, cTable,
          pType, pPages, pNext, pResults, pBuilt, pOutcome>>

(***************************************************************************)
(* Bounds of the model.                                                    *)
(***************************************************************************)
\* longest list of snapshots handed to createSurfaceMatrix
MaxRecords == 2
\* most fetchData calls awaiting their result at one time
MaxInFlight == 2
\* largest implied volatility, in percent, handed to getIVColor
MaxIV == 40
\* most pages in one chain of next_url links
MaxPages == 2
\* most results on one page
MaxPageSize == 1

(***************************************************************************)
(* Optional values, and generic array helpers of JavaScript.               *)
(***************************************************************************)
Undefined == <<>>

Some(x) == <<x>>

\* x ?? d
OrElse(x, d) == IF x = Undefined THEN d ELSE x[1]

\* Array.prototype.map
Map(arr, F(_)) == [i \in 1..Len(arr) |-> F(arr[i])]

\* Array.prototype.find: the first element satisfying the test, or undefined
Find(arr, Test(_)) ==
    LET hits == SelectSeq(arr, Test)
    IN  IF hits = <<>> THEN Undefined ELSE Some(hits[1])

\* [...new Set(arr)]: the distinct elements in order of first occurrence
SetSpread(arr) ==
    LET first(i) == \A k \in 1..(i - 1) : arr[k] # arr[i]
        keep == {i \in 1..Len(arr) : first(i)}
        pos(i) == Cardinality({k \in keep : k <= i})
    IN  [n \in 1..Cardinality(keep) |->
            arr[CHOOSE i \in keep : pos(i) = n]]

IndexPermutations(n) ==
    {p \in [1..n -> 1..n] : \A i, j \in 1..n : i # j => p[i] # p[j]}

(***************************************************************************)
(* Array.prototype.sort.  Cmp(a, b) is the value the comparator returns    *)
(* for two elements, or Undefined when it returns NaN; SortCompare turns   *)
(* NaN into +0.  For a consistent comparator (ECMAScript: it never returns *)
(* NaN, = is reflexive and symmetric, and =, < and > are transitive) the   *)
(* result is the one stable ordering; otherwise the order is               *)
(* implementation-defined and every permutation is a possible result.  A   *)
(* result is an index sequence p: the sorted array is arr[p[1]],           *)
(* arr[p[2]], ...                                                          *)
(***************************************************************************)
SortCompare(v) == OrElse(v, 0)

\* triples with i = j or j = k hold by reflexivity and are skipped
ConsistentComparator(arr, Cmp(_, _)) ==
    LET n == Len(arr)
        c(i, j) == SortCompare(Cmp(arr[i], arr[j]))
    IN  /\ \A i \in 1..n : \A j \in 1..n : Cmp(arr[i], arr[j]) # Undefined
        /\ \A i \in 1..n : c(i, i) = 0
        /\ \A i \in 1..n : \A j \in 1..n \ {i} :
              LET ij == c(i, j)
              IN  /\ ij = 0 => c(j, i) = 0
                  /\ \A k \in 1..n \ {j} :
                        LET jk == c(j, k)
                        IN  /\ (ij = 0 /\ jk = 0) => c(i, k) = 0
                            /\ (ij < 0 /\ jk < 0) => c(i, k) < 0
                            /\ (ij > 0 /\ jk > 0) => c(i, k) > 0

StableOrder(arr, Cmp(_, _)) ==
    LET n == Len(arr)
        c(i, j) == SortCompare(Cmp(arr[i], arr[j]))
        before(i, j) == \/ i < j /\ c(i, j) <= 0
                        \/ i > j /\ c(i, j) < 0
        rank(j) == 1 + Cardinality({i \in 1..n \ {j} : before(i, j)})
    IN  [r \in 1..n |-> CHOOSE j \in 1..n : rank(j) = r]

SortOrders(arr, Cmp(_, _)) ==
    IF ConsistentComparator(arr, Cmp)
    THEN {StableOrder(arr, Cmp)}
    ELSE IndexPermutations(Len(arr))

Reorder(arr, p) == [i \in 1..Len(p) |-> arr[p[i]]]

(***************************************************************************)
(* Strings and dates.                                                      *)
(***************************************************************************)
\* x < y on strings: lexicographic on UTF-16 code units
StringLess(x, y) ==
    \E k \in 1..(Len(y)) :
        /\ \A i \in 1..(k - 1) : i <= Len(x) /\ x[i] = y[i]
        /\ \/ k = Len(x) + 1
           \/ k <= Len(x) /\ x[k] < y[k]

\* the comparator of sort() called without a comparefn, on strings
DefaultCompare(x, y) ==
    IF StringLess(x, y) THEN Some(-1)
    ELSE IF StringLess(y, x) THEN Some(1) ELSE Some(0)

IsDigit(c) == c \in 48..57

\* String.prototype.split at the hyphens, scanning from position i: cur is
\* the field being read, acc the fields already closed
RECURSIVE FieldsFrom(_, _, _, _)
FieldsFrom(s, i, cur, acc) ==
    IF i > Len(s) THEN Append(acc, cur)
    ELSE IF s[i] = 45  \* "-"
         THEN FieldsFrom(s, i + 1, <<>>, Append(acc, cur))
    ELSE FieldsFrom(s, i + 1, Append(cur, s[i]), acc)

Fields(s) == FieldsFrom(s, 1, <<>>, <<>>)

RECURSIVE Decimal(_)
Decimal(f) ==
    IF f = <<>> THEN 0
    ELSE 10 * Decimal(SubSeq(f, 1, Len(f) - 1)) + (f[Len(f)] - 48)

\* new Date(s).getTime() for year-month-day texts: Undefined is NaN (an
\* invalid date); otherwise the day's ordinal, which orders dates as the
\* millisecond value does.
DateTime(s) ==
    LET fs == Fields(s)
        numeric(f) == f # <<>> /\ \A i \in 1..Len(f) : IsDigit(f[i])
    IN  IF Len(fs) = 3 /\ \A n \in 1..3 : numeric(fs[n])
        THEN LET y == Decimal(fs[1])
                 m == Decimal(fs[2])
                 d == Decimal(fs[3])
             IN  IF m \in 1..12 /\ d \in 1..31
                 THEN Some((y * 12 + (m - 1)) * 31 + (d - 1))
                 ELSE Undefined
        ELSE Undefined

(***************************************************************************)
(* Inputs: option snapshots.                                               *)
(***************************************************************************)
OptionTypes == {"call", "put"}

\* "2024-2-1"
Exp_2024_2_1 == <<50, 48, 50, 52, 45, 50, 45, 49>>
\* "2024-10-1"
Exp_2024_10_1 == <<50, 48, 50, 52, 45, 49, 48, 45, 49>>
\* "n/a"
Exp_na == <<110, 47, 97>>
\* ""
Exp_empty == <<>>

Snapshot(t, k, e, iv, p) ==
    [contract_type |-> t, strike_price |-> k, expiration_date |-> e,
     implied_volatility |-> iv, price |-> p]

\* well-formed contracts: two strikes, two expirations, each expiration
\* with its own quote (implied volatility, underlying price)
Contracts ==
    {Snapshot(t, k, q[1], q[2], q[3]) :
        t \in OptionTypes, k \in {100, 110},
        q \in {<<Exp_2024_2_1, Some(20), 100>>,
               <<Exp_2024_10_1, Some(30), 105>>}}

\* call contracts with one degenerate field
Degenerate ==
    {Snapshot("call", k, Exp_2024_2_1, Some(25), 100) : k \in {0, -5}}
    \cup {Snapshot("call", 100, e, Some(25), 100) : e \in {Exp_empty, Exp_na}}
    \cup {Snapshot("call", 100, Exp_2024_2_1, Undefined, 100),
          Snapshot("call", 100, Exp_2024_2_1, Some(25), 0)}

Snapshots == Contracts \cup Degenerate

SnapshotLists == UNION {[1..n -> Snapshots] : n \in 0..MaxRecords}

(***************************************************************************)
(* createSurfaceMatrix                                                     *)
(***************************************************************************)
Left(e) == [tag |-> "Left", left |-> e]

Right(a) == [tag |-> "Right", right |-> a]

NoValidOptions(type) ==
    IF type = "call" THEN "No valid call options found"
    ELSE "No valid put options found"

NoUnderlyingPrice == "No valid underlying price found"

\* variant of IsValidOption: the contract type is not compared
IsValidOptionOfAnyType(type, option) ==
    /\ option.strike_price # 0
    /\ option.expiration_date # <<>>

\* the filter's test: type matches, strike_price truthy, expiration_date truthy
IsValidOption(type, option) ==
    /\ option.contract_type = type
    /\ option.strike_price # 0
    /\ option.expiration_date # <<>>

ValidOptions(type, data) ==
    SelectSeq(data, LAMBDA option : IsValidOption(type, option))

NumericCompare(a, b) == Some(a - b)

\* variant of UniqueStrikes: the strikes are sorted without the Set
StrikesWithoutSet(validOptions) ==
    LET all == Map(validOptions, LAMBDA opt : opt.strike_price)
    IN  Reorder(all, StableOrder(all, NumericCompare))

\* [...new Set(validOptions.map(strike_price))].sort((a, b) => a - b)
UniqueStrikes(validOptions) ==
    LET unique == SetSpread(Map(validOptions, LAMBDA opt : opt.strike_price))
    IN  Reorder(unique, StableOrder(unique, NumericCompare))

\* [...new Set(validOptions.map(expiration_date))].sort()
UniqueExpirations(validOptions) ==
    LET unique == SetSpread(Map(validOptions, LAMBDA opt : opt.expiration_date))
    IN  Reorder(unique, StableOrder(unique, DefaultCompare))

\* variant of CellIV: the last matching record instead of the first
CellIVOfLast(validOptions, strike, expiry) ==
    LET hits == SelectSeq(validOptions, LAMBDA opt :
                        /\ opt.strike_price = strike
                        /\ opt.expiration_date = expiry)
    IN  IF hits = <<>> THEN 0
        ELSE OrElse(hits[Len(hits)].implied_volatility, 0)

\* variant of CellIV: the record is looked up by strike alone
CellIVByStrike(validOptions, strike, expiry) ==
    LET option == Find(validOptions, LAMBDA opt : opt.strike_price = strike)
    IN  IF option = Undefined THEN 0
        ELSE OrElse(option[1].implied_volatility, 0)

\* validOptions.find(strike and expiry match)?.implied_volatility ?? 0
CellIV(validOptions, strike, expiry) ==
    LET option == Find(validOptions, LAMBDA opt :
                        /\ opt.strike_price = strike
                        /\ opt.expiration_date = expiry)
    IN  IF option = Undefined THEN 0
        ELSE OrElse(option[1].implied_volatility, 0)

\* variant of BuildIVs: one row per valid option instead of one per strike
BuildIVsPerOption(validOptions, strikes, expirations) ==
    [i \in 1..Len(validOptions) |->
        [j \in 1..Len(expirations) |->
            IF validOptions[i].expiration_date = expirations[j]
            THEN OrElse(validOptions[i].implied_volatility, 0) ELSE 0]]

BuildIVs(validOptions, strikes, expirations) ==
    [i \in 1..Len(strikes) |->
        [j \in 1..Len(expirations) |->
            CellIV(validOptions, strikes[i], expirations[j])]]

\* variant of FirstUnderlyingPrice: a missing price defaults to 0
UnderlyingPriceOrZero(validOptions) ==
    LET option == Find(validOptions, LAMBDA opt : opt.price # 0)
    IN  IF option = Undefined THEN Some(0) ELSE Some(option[1].price)

\* variant of FirstUnderlyingPrice: the last record carrying a price
LastUnderlyingPrice(validOptions) ==
    LET priced == SelectSeq(validOptions, LAMBDA opt : opt.price # 0)
    IN  IF priced = <<>> THEN Undefined
        ELSE Some(priced[Len(priced)].price)

\* validOptions.find(opt => opt.underlying_asset?.price)?.underlying_asset.price
FirstUnderlyingPrice(validOptions) ==
    LET option == Find(validOptions, LAMBDA opt : opt.price # 0)
    IN  IF option = Undefined THEN Undefined ELSE Some(option[1].price)

createSurfaceMatrix(type, data) ==
    LET validOptions == ValidOptions(type, data)
        strikes == UniqueStrikes(validOptions)
        expirations == UniqueExpirations(validOptions)
        ivs == BuildIVs(validOptions, strikes, expirations)
        underlyingPrice == FirstUnderlyingPrice(validOptions)
    IN  IF Len(validOptions) = 0 THEN Left(NoValidOptions(type))
        ELSE IF underlyingPrice = Undefined THEN Left(NoUnderlyingPrice)
        ELSE Right([strikes |-> strikes,
                    expirations |-> expirations,
                    ivs |-> ivs,
                    underlyingPrice |-> underlyingPrice[1]])

(***************************************************************************)
(* The sorted view: the useMemo body of VolatilitySurface.                 *)
(***************************************************************************)
SortKeys == {"strikes", "expirations", "iv"}

Directions == {"asc", "desc"}

InitialSortConfig ==
    [key |-> "strikes", direction |-> "asc", expirationIndex |-> Undefined]

\* variant of Directed: the direction is ignored
DirectedAlwaysAscending(config, diff) == diff

\* sortConfig.direction === 'asc' ? diff : -diff   (diff may be NaN)
Directed(config, diff) ==
    IF diff = Undefined THEN Undefined
    ELSE IF config.direction = "asc" THEN diff ELSE Some(-diff[1])

\* strikes.map((_, i) => i), expirations.map((_, i) => i), 1-based here
Indices(arr) == [i \in 1..Len(arr) |-> i]

\* variant of IVAt: the first column is read whatever column is asked for
IVAtFirstColumn(ivs, a, expirationIndex) ==
    IF 1 \in 1..Len(ivs[a]) THEN Some(ivs[a][1]) ELSE Undefined

\* ivs[a][expirationIndex]: undefined when the column does not exist
IVAt(ivs, a, expirationIndex) ==
    IF expirationIndex + 1 \in 1..Len(ivs[a])
    THEN Some(ivs[a][expirationIndex + 1]) ELSE Undefined

\* x - y on numbers that may be undefined or NaN
Minus(x, y) ==
    IF x = Undefined \/ y = Undefined THEN Undefined ELSE Some(x[1] - y[1])

\* variant of StrikeOrders: a descending order is the ascending order
\* reversed
StrikeOrdersByReversal(matrix, config) ==
    LET strikes == matrix.strikes
        ivs == matrix.ivs
        strikeIndices == Indices(strikes)
        byStrike(a, b) == Some(strikes[a] - strikes[b])
        byIV(a, b) ==
            Minus(IVAt(ivs, a, config.expirationIndex[1]),
                  IVAt(ivs, b, config.expirationIndex[1]))
        ascending ==
            IF config.key = "strikes"
            THEN SortOrders(strikeIndices, byStrike)
            ELSE IF config.key = "iv" /\ config.expirationIndex # Undefined
            THEN SortOrders(strikeIndices, byIV)
            ELSE {strikeIndices}
    IN  IF config.direction = "asc" THEN ascending
        ELSE {[i \in 1..Len(p) |-> p[Len(p) + 1 - i]] : p \in ascending}

\* the possible orders of strikeIndices after the sort step
StrikeOrders(matrix, config) ==
    LET strikes == matrix.strikes
        ivs == matrix.ivs
        strikeIndices == Indices(strikes)
        byStrike(a, b) ==
            Directed(config, Some(strikes[a] - strikes[b]))
        byIV(a, b) ==
            Directed(config,
                     Minus(IVAt(ivs, a, config.expirationIndex[1]),
                           IVAt(ivs, b, config.expirationIndex[1])))
    IN  IF config.key = "strikes"
        THEN SortOrders(strikeIndices, byStrike)
        ELSE IF config.key = "expirations"
        THEN {strikeIndices}
        ELSE IF config.key = "iv" /\ config.expirationIndex # Undefined
        THEN SortOrders(strikeIndices, byIV)
        ELSE {strikeIndices}

\* variant of ExpirationOrders: the columns follow the direction of every
\* sort, whatever its key
ExpirationOrdersFollowingDirection(matrix, config) ==
    LET expirations == matrix.expirations
        expirationIndices == Indices(expirations)
        time == [a \in 1..Len(expirations) |-> DateTime(expirations[a])]
        byDate(a, b) == Directed(config, Minus(time[a], time[b]))
    IN  SortOrders(expirationIndices, byDate)

\* the possible orders of expirationIndices after the sort step
ExpirationOrders(matrix, config) ==
    LET expirations == matrix.expirations
        expirationIndices == Indices(expirations)
        \* new Date(expirations[a]).getTime(), evaluated once per column
        time == [a \in 1..Len(expirations) |-> DateTime(expirations[a])]
        byDate(a, b) == Directed(config, Minus(time[a], time[b]))
    IN  IF config.key = "strikes"
        THEN {expirationIndices}
        ELSE IF config.key = "expirations"
        THEN SortOrders(expirationIndices, byDate)
        ELSE {expirationIndices}

\* variant of SortedView: strikes and expirations are reordered but the
\* grid is passed through as it was
SortedViewKeepingGrid(matrix, strikeIndices, expirationIndices) ==
    [strikes |-> Reorder(matrix.strikes, strikeIndices),
     expirations |-> Reorder(matrix.expirations, expirationIndices),
     ivs |-> matrix.ivs,
     underlyingPrice |-> matrix.underlyingPrice]

\* Reorder all data dimensions according to sorted indices
SortedView(matrix, strikeIndices, expirationIndices) ==
    [strikes |-> Reorder(matrix.strikes, strikeIndices),
     expirations |-> Reorder(matrix.expirations, expirationIndices),
     ivs |-> [i \in 1..Len(strikeIndices) |->
                [j \in 1..Len(expirationIndices) |->
                    matrix.ivs[strikeIndices[i]][expirationIndices[j]]]],
     underlyingPrice |-> matrix.underlyingPrice]

\* variant of SortedData: the sort is applied to the matrix's own arrays,
\* which leaves them in the order of the view
SortedDataInPlace(matrix, config) ==
    {[source |-> SortedView(matrix, sp, ep),
      view |-> SortedView(matrix, sp, ep)] :
        sp \in StrikeOrders(matrix, config),
        ep \in ExpirationOrders(matrix, config)}

\* The memo's outcomes for a non-null surfaceData.  Array.prototype.sort
\* reorders its receiver in place: the receivers are the two fresh index
\* arrays, so the arrays of surfaceData are as they were (source).
SortedData(matrix, config) ==
    {[source |-> matrix,
      view |-> SortedView(matrix, sp, ep)] :
        sp \in StrikeOrders(matrix, config),
        ep \in ExpirationOrders(matrix, config)}

\* every configuration handleSort can store for a table of n columns, and
\* the column one past the last (a column of an earlier, wider table)
SortConfigsFor(n) ==
    {[key |-> k, direction |-> d, expirationIndex |-> Undefined] :
        k \in {"strikes", "expirations"}, d \in Directions}
    \cup {[key |-> "iv", direction |-> d, expirationIndex |-> Some(c)] :
            d \in Directions, c \in 0..n}

(***************************************************************************)
(* The colour of a cell: getIVColor, in percent (0.05 is 5).               *)
(***************************************************************************)
\* variant of getIVColor: the two outer classes include their thresholds
getIVColorInclusive(iv, baseIV) ==
    LET diff == iv - baseIV
    IN  IF diff <= -5 THEN "text-blue-600 font-medium"
        ELSE IF diff < 0 THEN "text-blue-400"
        ELSE IF diff >= 5 THEN "text-red-600 font-medium"
        ELSE IF diff > 0 THEN "text-red-400"
        ELSE "text-gray-600"

getIVColor(iv, baseIV) ==
    LET diff == iv - baseIV
    IN  IF diff < -5 THEN "text-blue-600 font-medium"
        ELSE IF diff < 0 THEN "text-blue-400"
        ELSE IF diff > 5 THEN "text-red-600 font-medium"
        ELSE IF diff > 0 THEN "text-red-400"
        ELSE "text-gray-600"

\* variant of SurfaceTableCells: the baseline is the IV of the first row
SurfaceTableCellsFirstRowBase(data) ==
    [i \in 1..Len(data.strikes) |->
        [j \in 1..Len(data.ivs[i]) |->
            LET iv == data.ivs[i][j]
                baseIV == IF j \in 1..Len(data.ivs[1])
                          THEN data.ivs[1][j] ELSE 0
            IN  [iv |-> iv, baseIV |-> baseIV,
                 className |-> getIVColor(iv, baseIV)]]]

\* variant of SurfaceTableCells: the baseline row is floor((n - 1) / 2)
SurfaceTableCellsLowerMiddle(data) ==
    [i \in 1..Len(data.strikes) |->
        [j \in 1..Len(data.ivs[i]) |->
            LET iv == data.ivs[i][j]
                baseIVRow == (Len(data.strikes) - 1) \div 2
                baseIV ==
                    IF /\ baseIVRow + 1 \in 1..Len(data.ivs)
                       /\ j \in 1..Len(data.ivs[baseIVRow + 1])
                    THEN data.ivs[baseIVRow + 1][j] ELSE 0
            IN  [iv |-> iv, baseIV |-> baseIV,
                 className |-> getIVColor(iv, baseIV)]]]

\* the body cells of SurfaceTable: for row i and column j the IV, the
\* baseline data.ivs[baseIVRow]?.[j] ?? 0 it is compared with, and the
\* colour class of the cell
SurfaceTableCells(data) ==
    [i \in 1..Len(data.strikes) |->
        [j \in 1..Len(data.ivs[i]) |->
            LET iv == data.ivs[i][j]
                baseIVRow == Len(data.strikes) \div 2
                baseIV ==
                    IF /\ baseIVRow + 1 \in 1..Len(data.ivs)
                       /\ j \in 1..Len(data.ivs[baseIVRow + 1])
                    THEN data.ivs[baseIVRow + 1][j] ELSE 0
            IN  [iv |-> iv, baseIV |-> baseIV,
                 className |-> getIVColor(iv, baseIV)]]]

\* no cell is being coloured
ColorIdle ==
    /\ cIV = 0
    /\ cBaseIV = 0
    /\ cColor = Undefined
    /\ cData = Undefined
    /\ cConfig = InitialSortConfig
    /\ cTable = Undefined

(***************************************************************************)
(* The builder and the sorted view as functions of their inputs.           *)
(***************************************************************************)
NotBuilt == [tag |-> "NotBuilt"]

FetchIdle ==
    /\ pType = "call"
    /\ pPages = <<>>
    /\ pNext = 1
    /\ pResults = <<>>
    /\ pBuilt = Undefined
    /\ pOutcome = Undefined

UiIdle ==
    /\ ticker = ""
    /\ selectedType = "call"
    /\ surfaceData = Undefined
    /\ sortConfig = InitialSortConfig
    /\ sortedData = Undefined
    /\ isLoading = FALSE
    /\ error = Undefined
    /\ inFlight = <<>>
    /\ shown = Undefined

InitBuild ==
    /\ bType \in OptionTypes
    /\ bData \in SnapshotLists
    /\ bResult = NotBuilt
    /\ bConfig = InitialSortConfig
    /\ bView = Undefined
    /\ bAgain = Undefined
    /\ ColorIdle
    /\ UiIdle
    /\ FetchIdle

Build ==
    /\ bResult = NotBuilt
    /\ bResult' = createSurfaceMatrix(bType, bData)
    /\ UNCHANGED <<bType, bData, bConfig, bView, bAgain>>
    /\ UNCHANGED <<uiVars, colorVars, fetchVars>>

SortBuilt ==
    /\ bResult.tag = "Right"
    /\ bView = Undefined
    /\ \E config \in SortConfigsFor(Len(bResult.right.expirations)) :
         \E memo \in SortedData(bResult.right, config) :
            /\ bConfig' = config
            /\ bView' = Some(memo.view)
            /\ bResult' = Right(memo.source)
    /\ UNCHANGED <<bType, bData, bAgain>>
    /\ UNCHANGED <<uiVars, colorVars, fetchVars>>

\* the memo's function applied to a matrix that is itself a sorted view:
\* the same key and column as the first sort, in either direction
SortAgain ==
    /\ bView # Undefined
    /\ bAgain = Undefined
    /\ \E direction \in Directions :
         LET config == [bConfig EXCEPT !.direction = direction]
         IN  \E memo \in SortedData(bView[1], config) :
                bAgain' = Some([config |-> config, view |-> memo.view])
    /\ UNCHANGED <<bType, bData, bResult, bConfig, bView>>
    /\ UNCHANGED <<uiVars, colorVars, fetchVars>>

NextBuild == Build \/ SortBuilt \/ SortAgain

SpecBuild == InitBuild /\ [][NextBuild]_vars

(***************************************************************************)
(* Properties of createSurfaceMatrix, stated on the call                   *)
(* createSurfaceMatrix(bType, bData) whose result is bResult.              *)
(***************************************************************************)
Returned == bResult.tag = "Right"

\* the input records that pass the builder's filter, in input order
Filtered == ValidOptions(bType, bData)

\* the filtered records with the strike of row i and the expiration of column j
Keyed(i, j) ==
    SelectSeq(Filtered, LAMBDA r :
        /\ r.strike_price = bResult.right.strikes[i]
        /\ r.expiration_date = bResult.right.expirations[j])

Rows == 1..Len(bResult.right.strikes)

Columns == 1..Len(bResult.right.expirations)

\* C1: whenever a matrix is returned, its strikes are strictly increasing
\* by numeric value and its expirations are strictly increasing (as
\* strings, the order the builder sorts them in), so neither sequence
\* holds a duplicate.
C1_StrictlyIncreasing ==
    Returned =>
        LET strikes == bResult.right.strikes
            expirations == bResult.right.expirations
        IN  /\ \A i \in Rows : \A j \in Rows :
                i < j => strikes[i] < strikes[j]
            /\ \A i \in Columns : \A j \in Columns :
                i < j => StringLess(expirations[i], expirations[j])

\* two filtered records given in descending strike and descending
\* expiration text come back as a 2 x 2 matrix
C1_Witness ==
    /\ Returned
    /\ Len(Filtered) = 2
    /\ Filtered[1].strike_price > Filtered[2].strike_price
    /\ StringLess(Filtered[2].expiration_date, Filtered[1].expiration_date)
    /\ Len(bResult.right.strikes) = 2
    /\ Len(bResult.right.expirations) = 2

\* C2: the expirations of a returned matrix are ordered by date value: an
\* expiration with an earlier date stands before one with a later date,
\* also when the texts are not zero-padded.
C2_ChronologicalExpirations ==
    Returned =>
        LET expirations == bResult.right.expirations
        IN  \A i \in Columns : \A j \in Columns :
                LET a == DateTime(expirations[i])
                    b == DateTime(expirations[j])
                IN  (a # Undefined /\ b # Undefined /\ a[1] < b[1]) => i < j

Dimensions(matrix) ==
    /\ Len(matrix.ivs) = Len(matrix.strikes)
    /\ \A i \in 1..Len(matrix.ivs) :
          Len(matrix.ivs[i]) = Len(matrix.expirations)

\* C3: every matrix the builder returns, and every sorted view computed
\* from it under any sort configuration, has one row of ivs per strike
\* and, in every row, one cell per expiration.
C3_Dimensions ==
    /\ Returned => Dimensions(bResult.right)
    /\ bView # Undefined => Dimensions(bView[1])

\* a view of a 2 x 2 matrix whose rows the sort has reordered
C3_Witness ==
    /\ Returned
    /\ bView # Undefined
    /\ Len(bView[1].strikes) = 2
    /\ Len(bView[1].expirations) = 2
    /\ bView[1].strikes # bResult.right.strikes

\* C4: each cell of a returned matrix is the implied volatility of a
\* filtered record with the row's strike and the column's expiration, or
\* is 0 when there is no such record or such a record carries no implied
\* volatility; a single-record input gives a 1 x 1 matrix with that
\* record's implied volatility (0 when it has none) and underlying price.
C4_CellValues ==
    Returned =>
        /\ \A i \in Rows : \A j \in Columns :
              LET cell == bResult.right.ivs[i][j]
                  keyed == Keyed(i, j)
              IN  \/ \E n \in 1..Len(keyed) :
                        /\ keyed[n].implied_volatility # Undefined
                        /\ cell = keyed[n].implied_volatility[1]
                  \/ /\ cell = 0
                     /\ \/ keyed = <<>>
                        \/ \E n \in 1..Len(keyed) :
                              keyed[n].implied_volatility = Undefined
        /\ Len(bData) = 1 =>
              /\ bResult.right.strikes = <<bData[1].strike_price>>
              /\ bResult.right.expirations = <<bData[1].expiration_date>>
              /\ bResult.right.ivs =
                    <<<<OrElse(bData[1].implied_volatility, 0)>>>>
              /\ bResult.right.underlyingPrice = bData[1].price

\* a 2 x 2 matrix with two quoted cells and two cells without a record
C4_Witness ==
    /\ Returned
    /\ Len(bResult.right.strikes) = 2
    /\ Len(bResult.right.expirations) = 2
    /\ \E i \in Rows : \E j \in Columns :
          Keyed(i, j) = <<>> /\ bResult.right.ivs[i][j] = 0
    /\ \E i \in Rows : \E j \in Columns :
          Keyed(i, j) # <<>> /\ bResult.right.ivs[i][j] > 0

C6_NoRecordOfType ==
    (/\ bResult # NotBuilt
     /\ \A n \in 1..Len(bData) : bData[n].contract_type # bType)
        => bResult.tag = "Left"

\* 'put' was built from a non-empty input of call records only
C6_Witness ==
    /\ bResult # NotBuilt
    /\ bType = "put"
    /\ Len(bData) > 0
    /\ \A n \in 1..Len(bData) : bData[n].contract_type = "call"
    /\ bResult.tag = "Left"

\* C7: when records pass the filter but none of them carries a usable
\* (non-zero) underlying price, the builder returns an error, and that
\* error differs from the one returned when no record passes the filter.
C7_MissingPriceError ==
    (/\ bResult # NotBuilt
     /\ Len(Filtered) > 0
     /\ \A n \in 1..Len(Filtered) : Filtered[n].price = 0)
        => /\ bResult.tag = "Left"
           /\ \A type \in OptionTypes : bResult.left # NoValidOptions(type)

\* a filtered record without a price, beside a priced record of the other
\* contract type
C7_Witness ==
    /\ bResult # NotBuilt
    /\ Len(Filtered) > 0
    /\ \A n \in 1..Len(Filtered) : Filtered[n].price = 0
    /\ \E n \in 1..Len(bData) :
          bData[n].contract_type # bType /\ bData[n].price # 0
    /\ bResult.tag = "Left"

\* C8: the underlyingPrice of a returned matrix is the price of the first
\* record, in input order, that passes the filter and carries a non-zero
\* price; it is not taken from an excluded record or from a later one.
C8_FirstFilteredPrice ==
    Returned =>
        \E n \in 1..Len(bData) :
            /\ IsValidOption(bType, bData[n])
            /\ bData[n].price # 0
            /\ \A h \in 1..(n - 1) :
                  ~(IsValidOption(bType, bData[h]) /\ bData[h].price # 0)
            /\ bResult.right.underlyingPrice = bData[n].price

\* two filtered records with different prices: the first one's is returned
C8_Witness ==
    /\ Returned
    /\ Len(Filtered) = 2
    /\ Filtered[1].price # 0
    /\ Filtered[2].price # 0
    /\ Filtered[1].price # Filtered[2].price
    /\ bResult.right.underlyingPrice = Filtered[1].price

\* the filter as claimed: matching type, strike a positive number,
\* expiration a text that parses to a valid date
KeptAsClaimed(type, option) ==
    /\ option.contract_type = type
    /\ option.strike_price > 0
    /\ DateTime(option.expiration_date) # Undefined

\* C9: the builder keeps a record if and only if its contract type is the
\* requested one, its strike is a positive number and its expiration
\* parses to a valid date; no other record gives the matrix a strike or an
\* expiration.
C9_FilterKeepsValidRecords ==
    bResult # NotBuilt =>
        /\ Filtered = SelectSeq(bData, LAMBDA r : KeptAsClaimed(bType, r))
        /\ Returned =>
              /\ \A i \in Rows : bResult.right.strikes[i] > 0
              /\ \A j \in Columns :
                    DateTime(bResult.right.expirations[j]) # Undefined

(***************************************************************************)
(* Properties of the sorted view, stated on the view bView of the built    *)
(* matrix bResult.right under the configuration bConfig, and on the view   *)
(* bAgain of that view.                                                    *)
(***************************************************************************)
Sorted == bView # Undefined

\* p is a rearrangement of q: same length, every element as often
IsRearrangement(p, q) ==
    /\ Len(p) = Len(q)
    /\ \A x \in {p[i] : i \in 1..Len(p)} \cup {q[i] : i \in 1..Len(q)} :
          Cardinality({i \in 1..Len(p) : p[i] = x})
              = Cardinality({i \in 1..Len(q) : q[i] = x})

\* C11: under every sort configuration the sorted view gives each
\* (strike, expiration) pair the IV the unsorted matrix gives it, and its
\* strikes and expirations are rearrangements of the unsorted ones: no
\* value is changed, dropped or duplicated.
C11_SortKeepsCellValues ==
    Sorted =>
        LET matrix == bResult.right
            view == bView[1]
        IN  /\ IsRearrangement(view.strikes, matrix.strikes)
            /\ IsRearrangement(view.expirations, matrix.expirations)
            /\ \A i \in 1..Len(view.strikes), p \in 1..Len(matrix.strikes) :
                 \A j \in 1..Len(view.expirations),
                    q \in 1..Len(matrix.expirations) :
                    (/\ view.strikes[i] = matrix.strikes[p]
                     /\ view.expirations[j] = matrix.expirations[q])
                    => view.ivs[i][j] = matrix.ivs[p][q]

\* a sort that moved rows whose IVs differ
C11_Witness ==
    /\ Sorted
    /\ bView[1].strikes # bResult.right.strikes
    /\ bView[1].ivs # bResult.right.ivs
    /\ bView[1].ivs[1] = bResult.right.ivs[2]

SortedAgain == bAgain # Undefined

Reverse(arr) == [i \in 1..Len(arr) |-> arr[Len(arr) + 1 - i]]

\* the view of matrix whose rows are taken in the given order of strikes
RowsInOrder(matrix, strikes) ==
    [strikes |-> strikes,
     expirations |-> matrix.expirations,
     ivs |-> [i \in 1..Len(strikes) |->
                matrix.ivs[CHOOSE p \in 1..Len(matrix.strikes) :
                               matrix.strikes[p] = strikes[i]]],
     underlyingPrice |-> matrix.underlyingPrice]

\* C12 as stated: a strike sort in one direction followed by a strike sort
\* in the other direction restores the original strike order, whichever
\* direction comes first.
C12_OppositeSortsRestoreOriginal ==
    (/\ SortedAgain
     /\ bConfig.key = "strikes"
     /\ bAgain[1].config.direction # bConfig.direction)
    => bAgain[1].view.strikes = bResult.right.strikes

\* C12 as the code has it: after two strike sorts the rows are in the order
\* of the last sort alone.  Descending then ascending restores the builder's
\* original (ascending) order with every row intact; ascending then
\* descending gives the exact reverse of the original.
C12_LastStrikeSortDecides ==
    (SortedAgain /\ bConfig.key = "strikes")
    => LET matrix == bResult.right
       IN  bAgain[1].view =
               IF bAgain[1].config.direction = "asc"
               THEN matrix
               ELSE RowsInOrder(matrix, Reverse(matrix.strikes))

\* two rows with different IVs sorted by strike descending, then ascending
C12_Witness ==
    /\ SortedAgain
    /\ bConfig = [key |-> "strikes", direction |-> "desc",
                  expirationIndex |-> Undefined]
    /\ bAgain[1].config.direction = "asc"
    /\ Len(bResult.right.strikes) = 2
    /\ bView[1].strikes = Reverse(bResult.right.strikes)
    /\ bView[1].ivs # bResult.right.ivs
    /\ bAgain[1].view = bResult.right

SortsByColumn(config, matrix) ==
    /\ config.key = "iv"
    /\ config.expirationIndex # Undefined
    /\ config.expirationIndex[1] + 1 \in 1..Len(matrix.expirations)

\* the row of the matrix that holds the given strike
RowOf(matrix, strike) ==
    CHOOSE p \in 1..Len(matrix.strikes) : matrix.strikes[p] = strike

\* C14: in either direction the sort is stable: rows whose sort values are
\* equal (equal strikes, or equal IVs at the sort column, the 0 sentinel
\* included) appear in the view in the relative order they have in the
\* unsorted matrix.
C14_StableInBothDirections ==
    (Sorted /\ (bConfig.key = "strikes" \/ SortsByColumn(bConfig, bResult.right)))
    => LET matrix == bResult.right
           view == bView[1]
           value(m, r) ==
               IF bConfig.key = "strikes" THEN m.strikes[r]
               ELSE m.ivs[r][bConfig.expirationIndex[1] + 1]
       IN  \A i, j \in 1..Len(view.strikes) :
              (i < j /\ value(view, i) = value(view, j))
              => RowOf(matrix, view.strikes[i]) < RowOf(matrix, view.strikes[j])

\* a descending sort by a column in which both rows hold the same IV
C14_Witness ==
    /\ Sorted
    /\ SortsByColumn(bConfig, bResult.right)
    /\ bConfig.direction = "desc"
    /\ Len(bResult.right.strikes) = 2
    /\ bResult.right.ivs[1][bConfig.expirationIndex[1] + 1]
           = bResult.right.ivs[2][bConfig.expirationIndex[1] + 1]
    /\ bView[1].strikes = bResult.right.strikes

\* C15: with key iv and an existing column c, the rows of the sorted view
\* have ivs[i][c] non-decreasing in i for direction asc and non-increasing
\* for direction desc.
C15_RowsOrderedByColumn ==
    (Sorted /\ SortsByColumn(bConfig, bResult.right))
    => LET view == bView[1]
           c == bConfig.expirationIndex[1] + 1
       IN  \A i \in 1..(Len(view.strikes) - 1) :
              IF bConfig.direction = "asc"
              THEN view.ivs[i][c] <= view.ivs[i + 1][c]
              ELSE view.ivs[i][c] >= view.ivs[i + 1][c]

\* an ascending sort by the second of two columns that exchanges two rows
C15_Witness ==
    /\ Sorted
    /\ SortsByColumn(bConfig, bResult.right)
    /\ bConfig.direction = "asc"
    /\ bConfig.expirationIndex = Some(1)
    /\ Len(bResult.right.strikes) = 2
    /\ bResult.right.ivs[1][2] > bResult.right.ivs[2][2]
    /\ bView[1].strikes = Reverse(bResult.right.strikes)
    /\ bView[1].ivs[1][2] < bView[1].ivs[2][2]

\* C16: a sort by key iv produces a view only when the column index is an
\* index into the matrix's expirations; a request for a column outside
\* that range is rejected and yields no view.
C16_OutOfRangeColumnRejected ==
    (Sorted /\ bConfig.key = "iv")
    => bConfig.expirationIndex[1] + 1 \in 1..Len(bResult.right.expirations)

\* C19: a sort reorders at most one axis.  With key strikes or iv the
\* view's expirations are the original expirations in the original order;
\* with key expirations the view's strikes are the original strikes in the
\* original order; the underlyingPrice is the original one in every case.
C19_OneAxisPermuted ==
    Sorted =>
        LET matrix == bResult.right
            view == bView[1]
        IN  /\ bConfig.key \in {"strikes", "iv"}
                  => view.expirations = matrix.expirations
            /\ bConfig.key = "expirations"
                  => /\ view.strikes = matrix.strikes
                     /\ \A i \in 1..Len(view.strikes) :
                           IsRearrangement(view.ivs[i], matrix.ivs[i])
            /\ view.underlyingPrice = matrix.underlyingPrice

\* a descending strike sort of a matrix whose two expirations are not in
\* date order: the rows are exchanged, the columns stay where they were
C19_Witness ==
    /\ Sorted
    /\ bConfig.key = "strikes"
    /\ bConfig.direction = "desc"
    /\ Len(bResult.right.expirations) = 2
    /\ bView[1].strikes # bResult.right.strikes
    /\ bView[1].expirations = <<Exp_2024_10_1, Exp_2024_2_1>>

(***************************************************************************)
(* The options service: fetchOptionsData(symbol, type)().                  *)
(***************************************************************************)
FetchFailed == "Failed to fetch options data"

\* the contracts the endpoint lists for the ticker: for each type, one at
\* the lower strike with the earlier date and one at the higher strike with
\* the later date
Listed ==
    {c \in Contracts :
        (c.strike_price = 100)
            <=> (c.expiration_date = Exp_2024_2_1)}

\* what the upstream endpoint can answer: a failed request, or the results
\* of all pages, here any short list of listed contracts
Upstreams ==
    {[ok |-> FALSE, results |-> <<>>]}
    \cup {[ok |-> TRUE, results |-> r] :
            r \in UNION {[1..n -> Listed] : n \in 0..MaxRecords}}

\* tryCatch(fetchRawData) then validateAPIResponse then createSurfaceMatrix;
\* fetchRawData throws on a failed request and on an empty result list
fetchOptionsData(type, upstream) ==
    IF ~upstream.ok \/ Len(upstream.results) = 0
    THEN Left(FetchFailed)
    ELSE createSurfaceMatrix(type, upstream.results)

\* every Either the service can resolve to, per requested type
ServiceOutcomes ==
    [type \in OptionTypes |->
        {fetchOptionsData(type, upstream) : upstream \in Upstreams}]

(***************************************************************************)
(* The VolatilitySurface component with the useOptionsData hook.           *)
(***************************************************************************)
\* useMemo: the memo's outcomes for every matrix the service can return
\* and every configuration, computed once
ServiceMatrices ==
    {r.right : r \in {o \in UNION {ServiceOutcomes[t] : t \in OptionTypes} :
                          o.tag = "Right"}}

MemoTable ==
    [matrix \in ServiceMatrices, config \in SortConfigsFor(
        Cardinality({c.expiration_date : c \in Contracts})) |->
        SortedData(matrix, config)]

Memo(matrix, config) ==
    IF <<matrix, config>> \in DOMAIN MemoTable
    THEN MemoTable[matrix, config]
    ELSE SortedData(matrix, config)

TickerInputs == {"", "AAPL"}

Init ==
    /\ UiIdle
    /\ bType = "call"
    /\ bData = <<>>
    /\ bResult = NotBuilt
    /\ bConfig = InitialSortConfig
    /\ bView = Undefined
    /\ bAgain = Undefined
    /\ ColorIdle
    /\ FetchIdle

\* onChange of the ticker input
SetTicker(text) ==
    /\ ticker' = text
    /\ text # ticker
    /\ UNCHANGED <<selectedType, surfaceData, sortConfig, sortedData,
                   isLoading, error, inFlight, shown>>
    /\ UNCHANGED <<buildVars, colorVars, fetchVars>>

\* fetchData up to its await: setIsLoading(true), setError(null), and the
\* service call is started
StartFetch(type) ==
    /\ Len(inFlight) < MaxInFlight
    /\ isLoading' = TRUE
    /\ error' = Undefined
    /\ inFlight' = Append(inFlight, [type |-> type, overtaken |-> FALSE])

\* the form's submit; the submit button is disabled while isLoading
handleSubmit ==
    /\ ~isLoading
    /\ ticker # ""
    /\ StartFetch(selectedType)
    /\ UNCHANGED <<ticker, selectedType, surfaceData, sortConfig, sortedData,
                   shown>>
    /\ UNCHANGED <<buildVars, colorVars, fetchVars>>

\* the Calls and Puts buttons, rendered when sortedData is not null
handleTypeChange(type) ==
    /\ sortedData # Undefined
    /\ selectedType' = type
    /\ IF ticker # ""
       THEN StartFetch(type)
       ELSE UNCHANGED <<isLoading, error, inFlight>>
    /\ UNCHANGED <<ticker, surfaceData, sortConfig, sortedData, shown>>
    /\ UNCHANGED <<buildVars, colorVars, fetchVars>>

RemoveAt(seq, i) == SubSeq(seq, 1, i - 1) \o SubSeq(seq, i + 1, Len(seq))

\* the calls still pending after the i-th has delivered a matrix: those
\* started before it have been overtaken by a later request
Overtake(pending, i) ==
    [j \in 1..Len(pending) |->
        IF j < i THEN [pending[j] EXCEPT !.overtaken = TRUE] ELSE pending[j]]

\* the i-th pending service call resolves to result: fetchData's finally
\* block, then fetchSurfaceData's fold; a Right replaces surfaceData and the
\* memo is recomputed, a Left is only logged.  The service's TaskEither never
\* rejects, so fetchData's catch block, the one place that sets error, is
\* never entered.
FetchSettles(i, result) ==
    /\ i \in 1..Len(inFlight)
    /\ result \in ServiceOutcomes[inFlight[i].type]
    /\ isLoading' = FALSE
    /\ IF result.tag = "Right"
       THEN /\ \E memo \in Memo(result.right, sortConfig) :
                 /\ surfaceData' = Some(memo.source)
                 /\ sortedData' = Some(memo.view)
            /\ shown' = Some(inFlight[i])
            /\ inFlight' = RemoveAt(Overtake(inFlight, i), i)
       ELSE /\ UNCHANGED <<surfaceData, sortedData, shown>>
            /\ inFlight' = RemoveAt(inFlight, i)
    /\ UNCHANGED <<ticker, selectedType, sortConfig, error>>
    /\ UNCHANGED <<buildVars, colorVars, fetchVars>>

FetchResolves(i) ==
    \E result \in UNION {ServiceOutcomes[t] : t \in OptionTypes} :
        FetchSettles(i, result)

\* the requests the table's headers can make: Strike, Expirations, and one
\* header per displayed expiration column
SortRequests ==
    {<<"strikes", Undefined>>, <<"expirations", Undefined>>}
    \cup (IF sortedData = Undefined THEN {}
          ELSE {<<"iv", Some(c)>> :
                   c \in 0..(Len(sortedData[1].expirations) - 1)})

\* variant of NextSortConfig: the column of the request is not compared
NextSortConfigIgnoringColumn(prevConfig, key, expirationIndex) ==
    [key |-> key,
     expirationIndex |-> IF key = "iv" THEN expirationIndex ELSE Undefined,
     direction |->
        IF prevConfig.key = key /\ prevConfig.direction = "asc"
        THEN "desc" ELSE "asc"]

\* variant of NextSortConfig: a stored column survives a change of key
NextSortConfigKeepingColumn(prevConfig, key, expirationIndex) ==
    [key |-> key,
     expirationIndex |->
        IF key = "iv" THEN expirationIndex ELSE prevConfig.expirationIndex,
     direction |->
        IF /\ prevConfig.key = key
           /\ prevConfig.expirationIndex = expirationIndex
           /\ prevConfig.direction = "asc"
        THEN "desc" ELSE "asc"]

NextSortConfig(prevConfig, key, expirationIndex) ==
    [key |-> key,
     expirationIndex |-> IF key = "iv" THEN expirationIndex ELSE Undefined,
     direction |->
        IF /\ prevConfig.key = key
           /\ prevConfig.expirationIndex = expirationIndex
           /\ prevConfig.direction = "asc"
        THEN "desc" ELSE "asc"]

\* a click on a sortable header; the memo is recomputed for the new config
handleSort(key, expirationIndex) ==
    /\ sortedData # Undefined
    /\ <<key, expirationIndex>> \in SortRequests
    /\ sortConfig' = NextSortConfig(sortConfig, key, expirationIndex)
    /\ \E memo \in Memo(surfaceData[1], sortConfig') :
         /\ surfaceData' = Some(memo.source)
         /\ sortedData' = Some(memo.view)
    /\ UNCHANGED <<ticker, selectedType, isLoading, error, inFlight, shown>>
    /\ UNCHANGED <<buildVars, colorVars, fetchVars>>

Next ==
    \/ \E text \in TickerInputs : SetTicker(text)
    \/ handleSubmit
    \/ \E type \in OptionTypes : handleTypeChange(type)
    \/ \E i \in 1..MaxInFlight : FetchResolves(i)
    \/ \E key \in SortKeys, expirationIndex \in {Undefined} \cup {Some(c) : c \in 0..1} :
         handleSort(key, expirationIndex)

Spec == Init /\ [][Next]_vars

(***************************************************************************)
(* Properties of the component.                                            *)
(***************************************************************************)
\* C10: a sort request never changes the source matrix: across every
\* handleSort step surfaceData stays as it was, and surfaceData only ever
\* changes when a fetch resolves, to a matrix the builder returned.
C10_SortKeepsSource ==
    [][/\ sortConfig' # sortConfig => surfaceData' = surfaceData
       /\ surfaceData' # surfaceData =>
             /\ Len(inFlight') < Len(inFlight)
             /\ \E type \in OptionTypes :
                   Right(surfaceData'[1]) \in ServiceOutcomes[type]]_vars

\* after sort requests the displayed rows are in another order than the
\* rows of the fetched matrix
C10_Witness ==
    /\ surfaceData # Undefined
    /\ sortConfig.direction = "desc"
    /\ sortedData[1].strikes # surfaceData[1].strikes
    /\ \E type \in OptionTypes : Right(surfaceData[1]) \in ServiceOutcomes[type]

C18_ColumnOnlyWithKeyIV ==
    sortConfig.expirationIndex # Undefined <=> sortConfig.key = "iv"

\* a configuration that only handleSort calls can produce, with no column
C18_Witness ==
    /\ sortedData # Undefined
    /\ sortConfig = [key |-> "expirations", direction |-> "desc",
                     expirationIndex |-> Undefined]
(***************************************************************************)
(* Properties of the fetch cycle.                                          *)
(***************************************************************************)
\* C22: at most one fetch is in flight at any time: while a fetch started
\* by a submit or by a Calls/Puts click has not completed, no user action
\* starts another one.
C22_SingleFetchInFlight == Len(inFlight) <= 1

\* C23: last request wins: the matrix on display never is the result of a
\* request that resolved after a request started later than it had already
\* delivered its matrix.
C23_LastRequestWins == shown # Undefined => ~shown[1].overtaken

FailedOutcomes ==
    {o \in UNION {ServiceOutcomes[t] : t \in OptionTypes} : o.tag = "Left"}

\* C24: whenever a pending fetch resolves to a Left (a failed request, an
\* empty or invalid payload, no contract of the type, no reference price),
\* the hook's error is set afterwards, so that its message is rendered.
C24_LeftSetsError ==
    [][\A i \in 1..MaxInFlight, result \in FailedOutcomes :
          FetchSettles(i, result) => error' # Undefined]_vars

\* C27: whenever a matrix is displayed and the sort key is iv, the stored
\* expirationIndex is an index into the expirations of the current matrix.
C27_ColumnIndexValid ==
    (surfaceData # Undefined /\ sortConfig.key = "iv")
        => /\ sortConfig.expirationIndex # Undefined
           /\ sortConfig.expirationIndex[1]
                 \in 0..(Len(surfaceData[1].expirations) - 1)

\* C28: isLoading is true exactly when at least one fetchData call has not
\* yet resolved.
C28_LoadingIffInFlight == isLoading <=> inFlight # <<>>

\* C29: whenever no fetch is in flight and a matrix is displayed, the matrix
\* was built for the option type shown as selected.
C29_ShownTypeIsSelectedType ==
    (inFlight = <<>> /\ surfaceData # Undefined)
        => shown[1].type = selectedType

(***************************************************************************)
(* getIVColor and the cells of SurfaceTable as functions of their inputs.  *)
(* The pairs handed to getIVColor are those whose difference a double      *)
(* holds exactly (iv - 0, 0 - baseIV, x - x), and two pairs whose          *)
(* difference is far from a threshold, so that the class of the difference *)
(* in percent is the class of the difference the code computes.            *)
(***************************************************************************)
ColorInputs ==
    {<<iv, 0>> : iv \in 0..MaxIV}
    \cup {<<0, baseIV>> : baseIV \in 0..MaxIV}
    \cup {<<x, x>> : x \in 0..MaxIV}
    \cup {<<20, 30>>, <<36, 30>>}

\* three strikes with one expiration, IVs rising with the strike
ThreeStrikes ==
    [strikes |-> <<90, 100, 110>>,
     expirations |-> <<Exp_2024_2_1>>,
     ivs |-> <<<<20>>, <<30>>, <<40>>>>,
     underlyingPrice |-> 100]

\* the matrices handed to the component: those the service can return
ColorTables == ServiceMatrices \cup {ThreeStrikes}

InitColor ==
    /\ \/ /\ \E pair \in ColorInputs :
               /\ cIV = pair[1]
               /\ cBaseIV = pair[2]
          /\ cData = Undefined
          /\ cConfig = InitialSortConfig
       \/ /\ cIV = 0
          /\ cBaseIV = 0
          /\ \E data \in ColorTables :
               /\ cData = Some(data)
               /\ cConfig \in SortConfigsFor(Len(data.expirations) - 1)
    /\ cColor = Undefined
    /\ cTable = Undefined
    /\ UiIdle
    /\ FetchIdle
    /\ bType = "call"
    /\ bData = <<>>
    /\ bResult = NotBuilt
    /\ bConfig = InitialSortConfig
    /\ bView = Undefined
    /\ bAgain = Undefined

\* getIVColor is called for one cell
RenderCell ==
    /\ cData = Undefined
    /\ cColor = Undefined
    /\ cColor' = Some(getIVColor(cIV, cBaseIV))
    /\ UNCHANGED <<cIV, cBaseIV, cData, cConfig, cTable>>
    /\ UNCHANGED <<buildVars, uiVars, fetchVars>>

\* the component renders: the memo gives the sorted view of the matrix and
\* SurfaceTable colours every cell of that view
RenderTable ==
    /\ cData # Undefined
    /\ cTable = Undefined
    /\ \E memo \in SortedData(cData[1], cConfig) :
         cTable' = Some([view |-> memo.view,
                         cells |-> SurfaceTableCells(memo.view)])
    /\ UNCHANGED <<cIV, cBaseIV, cColor, cData, cConfig>>
    /\ UNCHANGED <<buildVars, uiVars, fetchVars>>

NextColor == RenderCell \/ RenderTable

SpecColor == InitColor /\ [][NextColor]_vars

StrongCold == "text-blue-600 font-medium"
MildCold == "text-blue-400"
Neutral == "text-gray-600"
MildHot == "text-red-400"
StrongHot == "text-red-600 font-medium"

\* C20 as stated: with d = iv - baseIV, d <= -0.05 is strong-cold,
\* -0.05 < d < 0 mild-cold, d = 0 neutral, 0 < d < 0.05 mild-hot and
\* d >= 0.05 strong-hot.
C20_InclusiveThresholds ==
    cColor # Undefined =>
        LET d == cIV - cBaseIV
        IN  cColor[1] = IF d <= -5 THEN StrongCold
                        ELSE IF d < 0 THEN MildCold
                        ELSE IF d = 0 THEN Neutral
                        ELSE IF d < 5 THEN MildHot
                        ELSE StrongHot

\* C20 as the code has it: d < -0.05 is strong-cold, -0.05 <= d < 0
\* mild-cold, d = 0 neutral, 0 < d <= 0.05 mild-hot and d > 0.05
\* strong-hot; d exactly -0.05 is mild-cold and d exactly +0.05 mild-hot.
C20_StrictThresholds ==
    cColor # Undefined =>
        LET d == cIV - cBaseIV
        IN  /\ d < -5 <=> cColor[1] = StrongCold
            /\ (-5 <= d /\ d < 0) <=> cColor[1] = MildCold
            /\ d = 0 <=> cColor[1] = Neutral
            /\ (0 < d /\ d <= 5) <=> cColor[1] = MildHot
            /\ d > 5 <=> cColor[1] = StrongHot

\* the sentinel 0 against a baseline of 0.05: d is exactly -0.05
C20_Witness ==
    /\ cIV = 0
    /\ cBaseIV = 5
    /\ cColor = Some(MildCold)

\* the table of three strikes is rendered in its unsorted order
ThreeStrikesRendered ==
    /\ cData = Some(ThreeStrikes)
    /\ cConfig = InitialSortConfig
    /\ cTable # Undefined

\* C21 as stated: for strikes [90, 100, 110] with IVs [0.20, 0.30, 0.40]
\* the baseline of every cell is the middle row's 0.30 and the cell of
\* 0.20 is strong-cold; getIVColor(0.20, 0.30) is strong-cold and
\* getIVColor(0.36, 0.30) is mild-hot.
C21_ScenarioWithMildHot ==
    /\ ThreeStrikesRendered
          => /\ \A i \in 1..3 : cTable[1].cells[i][1].baseIV = 30
             /\ cTable[1].cells[1][1].className = StrongCold
    /\ (cColor # Undefined /\ cIV = 20 /\ cBaseIV = 30)
          => cColor[1] = StrongCold
    /\ (cColor # Undefined /\ cIV = 36 /\ cBaseIV = 30)
          => cColor[1] = MildHot

\* C21 as the code has it: the baseline is the middle row's 0.30, 0.20
\* against 0.30 is strong-cold, and 0.36 against 0.30 is strong-hot (the
\* difference 0.06 is above 0.05).
C21_ScenarioWithStrongHot ==
    /\ ThreeStrikesRendered
          => /\ \A i \in 1..3 : cTable[1].cells[i][1].baseIV = 30
             /\ cTable[1].cells[1][1].className = StrongCold
    /\ (cColor # Undefined /\ cIV = 20 /\ cBaseIV = 30)
          => cColor[1] = StrongCold
    /\ (cColor # Undefined /\ cIV = 36 /\ cBaseIV = 30)
          => cColor[1] = StrongHot

\* getIVColor(0.36, 0.30) has been called
C21_Witness ==
    /\ cIV = 36
    /\ cBaseIV = 30
    /\ cColor = Some(StrongHot)

\* C26: in the rendered table the baseline of the cell in row i and column
\* j is the IV of the displayed matrix at row index floor(strikeCount / 2)
\* and column j, or 0 when there is no such cell, and the cell's colour
\* class is the class of its IV against this baseline.
C26_BaselineIsMiddleRow ==
    cTable # Undefined
        => LET view == cTable[1].view
               cells == cTable[1].cells
               middle == Len(view.strikes) \div 2
           IN  \A i \in 1..Len(view.strikes) :
                 \A j \in 1..Len(view.ivs[i]) :
                    /\ cells[i][j].iv = view.ivs[i][j]
                    /\ cells[i][j].baseIV =
                          IF /\ middle < Len(view.ivs)
                             /\ j <= Len(view.ivs[middle + 1])
                          THEN view.ivs[middle + 1][j] ELSE 0
                    /\ cells[i][j].className =
                          getIVColor(view.ivs[i][j], cells[i][j].baseIV)

\* a table of two rows is rendered: floor(2 / 2) = 1 makes the second row
\* the baseline, and its IV differs from the first row's in some column
C26_Witness ==
    /\ cTable # Undefined
    /\ Len(cTable[1].view.strikes) = 2
    /\ \E j \in 1..Len(cTable[1].view.expirations) :
          /\ cTable[1].view.ivs[1][j] # cTable[1].view.ivs[2][j]
          /\ cTable[1].cells[1][j].baseIV = cTable[1].view.ivs[2][j]
          /\ cTable[1].cells[1][j].className # Neutral

\* the colour class the table gives the pair (strike, expiration) when the
\* matrix is rendered as fetched
UnsortedClass(matrix, strike, expiration) ==
    LET i == CHOOSE r \in 1..Len(matrix.strikes) : matrix.strikes[r] = strike
        j == CHOOSE c \in 1..Len(matrix.expirations) :
                matrix.expirations[c] = expiration
    IN  SurfaceTableCells(matrix)[i][j].className

\* C30: for a fixed fetched matrix, under every sort configuration each
\* (strike, expiration) pair is rendered with the colour class it has in
\* the unsorted view.
C30_ColourIndependentOfSort ==
    cTable # Undefined
        => LET view == cTable[1].view
           IN  \A i \in 1..Len(view.strikes) :
                 \A j \in 1..Len(view.expirations) :
                    cTable[1].cells[i][j].className =
                       UnsortedClass(cData[1], view.strikes[i],
                                     view.expirations[j])

(***************************************************************************)
(* The paginated fetch of the service: fetchAllPages, fetchRawData and     *)
(* the pipe of fetchOptionsData, one page request per step.  pPages is the *)
(* endpoint's script: the responses of the chain of pages, each but the    *)
(* last carrying a next_url.                                               *)
(***************************************************************************)
\* an item optionSnapshotSchema rejects: its contract_type is not in the enum
Malformed == Snapshot("warrant", 100, Exp_2024_2_1, Some(20), 100)

PageItems ==
    {c \in Listed : c.contract_type = "call" \/ c.strike_price = 100}
    \cup {Malformed}

\* one page: a non-ok response, or a body with its results and its status
PageResponses ==
    {[ok |-> FALSE, results |-> <<>>, status |-> Undefined]}
    \cup {[ok |-> TRUE, results |-> r, status |-> s] :
            r \in UNION {[1..n -> PageItems] : n \in 0..MaxPageSize},
            s \in {Undefined, Some("OK")}}

PageScripts == UNION {[1..n -> PageResponses] : n \in 1..MaxPages}

\* variant of CombinedResults: the newest page is put first
CombinedResultsNewestFirst(allResults, results) == results \o allResults

\* [...allResults, ...data.results]
CombinedResults(allResults, results) == allResults \o results

\* optionSnapshotSchema; the other fields of a modelled item have the
\* schema's types by construction
optionSnapshotSchema(item) == item.contract_type \in OptionTypes

\* validateAPIResponse: polygonResponseSchema.parse
validateAPIResponse(response) ==
    IF /\ response.status # Undefined
       /\ \A i \in 1..Len(response.results) :
             optionSnapshotSchema(response.results[i])
    THEN Right(response)
    ELSE Left("Invalid API response")

InitFetch ==
    /\ pType \in OptionTypes
    /\ pPages \in PageScripts
    /\ pNext = 1
    /\ pResults = <<>>
    /\ pBuilt = Undefined
    /\ pOutcome = Undefined
    /\ UiIdle
    /\ ColorIdle
    /\ bType = "call"
    /\ bData = <<>>
    /\ bResult = NotBuilt
    /\ bConfig = InitialSortConfig
    /\ bView = Undefined
    /\ bAgain = Undefined

\* the end of the chain: fetchAllPages returns the last page's status with
\* the combined results, fetchRawData throws on an empty list, and the pipe
\* validates the response and hands its results to createSurfaceMatrix
Complete(response) ==
    IF Len(response.results) = 0
    THEN /\ pOutcome' = Some(Left(FetchFailed))
         /\ pBuilt' = pBuilt
    ELSE LET validated == validateAPIResponse(response)
         IN  IF validated.tag = "Left"
             THEN /\ pOutcome' = Some(validated)
                  /\ pBuilt' = pBuilt
             ELSE /\ pBuilt' = Some(validated.right.results)
                  /\ pOutcome' =
                        Some(createSurfaceMatrix(pType, validated.right.results))

\* one call of fetchAllPages: fetchPage throws on a response that is not
\* ok, which tryCatch turns into a Left; otherwise the page's results are
\* appended, and either the next page is requested or the chain is complete
fetchAllPages ==
    /\ pOutcome = Undefined
    /\ pNext \in 1..Len(pPages)
    /\ LET data == pPages[pNext]
           combinedResults == CombinedResults(pResults, data.results)
       IN  IF ~data.ok
           THEN /\ pOutcome' = Some(Left(FetchFailed))
                /\ UNCHANGED <<pNext, pResults, pBuilt>>
           ELSE /\ pResults' = combinedResults
                /\ IF pNext < Len(pPages)
                   THEN /\ pNext' = pNext + 1
                        /\ UNCHANGED <<pBuilt, pOutcome>>
                   ELSE /\ pNext' = pNext
                        /\ Complete([status |-> data.status,
                                     results |-> combinedResults])
    /\ UNCHANGED <<pType, pPages>>
    /\ UNCHANGED <<buildVars, uiVars, colorVars>>

NextFetch == fetchAllPages

SpecFetch == InitFetch /\ [][NextFetch]_vars


(***************************************************************************)
(* Properties of the paginated fetch.                                      *)
(***************************************************************************)
RECURSIVE ResultsInPageOrder(_)
ResultsInPageOrder(pages) ==
    IF pages = <<>> THEN <<>>
    ELSE ResultsInPageOrder(SubSeq(pages, 1, Len(pages) - 1))
            \o pages[Len(pages)].results

\* some page of the chain is not ok, or the combined payload is one that
\* validateAPIResponse rejects
ChainFails ==
    \/ \E k \in 1..Len(pPages) : ~pPages[k].ok
    \/ validateAPIResponse([status |-> pPages[Len(pPages)].status,
                            results |-> ResultsInPageOrder(pPages)]).tag = "Left"

\* C25: createSurfaceMatrix is invoked only once every page of the chain
\* has been received, with the results of all pages concatenated in page
\* order; when a page request fails or the payload fails validation it is
\* not invoked at all, and a matrix only ever comes out of such a call.
C25_BuildAfterFullPagination ==
    /\ pBuilt # Undefined
          => /\ pNext = Len(pPages)
             /\ pBuilt[1] = ResultsInPageOrder(pPages)
             /\ pOutcome = Some(createSurfaceMatrix(pType, pBuilt[1]))
    /\ (pPages # <<>> /\ ChainFails) => pBuilt = Undefined
    /\ (pOutcome # Undefined /\ pOutcome[1].tag = "Right")
          => pBuilt # Undefined

\* a chain of two pages with different contracts has been followed to its
\* end and a matrix built from both
C25_Witness ==
    /\ Len(pPages) = 2
    /\ pPages[1].results # <<>>
    /\ pPages[2].results # <<>>
    /\ pPages[1].results # pPages[2].results
    /\ pBuilt # Undefined
    /\ pOutcome # Undefined
    /\ pOutcome[1].tag = "Right"
    /\ Len(pOutcome[1].right.strikes) = 2
====
